---- MODULE Spec2Model ----
(***************************************************************************)
(* Model of src/download-data-test/main.py: a linear script that           *)
(* initializes Earth Engine, builds a cloud-masked Sentinel-2 median       *)
(* composite over a fixed area and year, exports it to a bucket and polls  *)
(* the export task until it is no longer active.                           *)
(*                                                                         *)
(* The script is one sequential process (pc); the export job is a second   *)
(* process run by the remote platform.  Every remote call is one atomic    *)
(* step that either returns or raises.  The image pipeline is lazy in the  *)
(* client; the model evaluates each stage when the script builds it.       *)
(***************************************************************************)
EXTENDS Integers, Sequences, FiniteSets, TLC

VARIABLES
    catalog,          \* the remote COPERNICUS/S2_SR_HARMONIZED catalog (input)
    s2_collection,    \* main.py s2_collection
    median_image,     \* main.py median_image
    pc,               \* position of the script
    out,              \* lines printed outside the polling loop
    exc,              \* the exception that ended the process, or "none"
    crashSite,        \* the position whose call raised it
    raisedLog,        \* every exception raised so far, as <<position, exception>>
    firstInit,        \* outcome of the first ee.Initialize
    initCalls,        \* number of ee.Initialize calls made
    authCalls,        \* number of ee.Authenticate calls made
    startCalls,       \* number of export_task.start() calls made
    jobState,         \* state of the remote export task
    jobError,         \* its error message
    final_status,     \* main.py final_status
    activeFalse,      \* an export_task.active() call has returned False
    loopStatus,       \* state printed by the last in-loop status line
    printsAfterTerm,  \* in-loop status lines printed since the job ended
    sleepsAfterTerm   \* sleeps completed since the job ended

vars == <<catalog, s2_collection, median_image, pc, out, exc, crashSite, raisedLog,
          firstInit, initCalls, authCalls, startCalls, jobState, jobError,
          final_status, activeFalse, loopStatus, printsAfterTerm,
          sleepsAfterTerm>>

scriptVars == <<s2_collection, median_image, pc, out, exc, crashSite, raisedLog,
                firstInit, initCalls, authCalls, startCalls, final_status,
                activeFalse, loopStatus>>

pipelineVars == <<s2_collection, median_image>>
jobVars == <<jobState, jobError>>
ghostVars == <<printsAfterTerm, sleepsAfterTerm>>

(***************************************************************************)
(* Bounds of the model.                                                    *)
(***************************************************************************)
MaxImages == 4          \* images in a catalog of the composite family
MaxFilterImages == 3    \* images in a catalog of the filter family
MaxQA == 4607           \* largest QA60 value enumerated (bits 0..12)
MaxCount == 3           \* the two after-termination counters saturate here

(***************************************************************************)
(* Program constants.  Dates are day numbers of 2023 (1 = 2023-01-01,      *)
(* 365 = 2023-12-31); lengths are metres along one axis through the AOI    *)
(* point.                                                                  *)
(***************************************************************************)
START_DATE == 1
END_DATE == 365
MAX_CLOUD_PERCENTAGE == 20
BufferRadius == 5000
ReflectanceScale == 10000
BUCKET_NAME == "valkyrion-satellite-data"
FILENAME == "bucharest-sentinel2"
bands == <<"B4", "B3", "B2", "B8">>
cloudBitMask == 2^10
cirrusBitMask == 2^11

aoi_region == [lo |-> 0 - BufferRadius, hi |-> BufferRadius]

Pixels == {1, 2}
CatalogBands == {"B2", "B3", "B4", "B8", "B11", "QA60"}

(***************************************************************************)
(* Rational numbers <<n, d>>, d > 0, in lowest terms: the pixel values     *)
(* after the division by 10000.                                            *)
(***************************************************************************)
RECURSIVE GCD(_, _)
GCD(a, b) == IF b = 0 THEN a ELSE GCD(b, a % b)

Abs(n) == IF n < 0 THEN 0 - n ELSE n

Norm(n, d) ==
    IF n = 0 THEN <<0, 1>>
    ELSE LET g == GCD(Abs(n), d) IN <<n \div g, d \div g>>

RatLess(a, b) == a[1] * b[2] < b[1] * a[2]
RatLeq(a, b) == a[1] * b[2] <= b[1] * a[2]
RatMean(a, b) == Norm(a[1] * b[2] + b[1] * a[2], 2 * a[2] * b[2])

(***************************************************************************)
(* Earth Engine image operators used by maskS2clouds.  Booleans are the    *)
(* integers 0 and 1, as in Earth Engine.                                   *)
(***************************************************************************)
RECURSIVE bitwiseAnd(_, _)
bitwiseAnd(a, b) ==
    IF a = 0 \/ b = 0 THEN 0
    ELSE (a % 2) * (b % 2) + 2 * bitwiseAnd(a \div 2, b \div 2)

eq(a, b) == IF a = b THEN 1 ELSE 0

And(a, b) == IF a # 0 /\ b # 0 THEN 1 ELSE 0

\* image.updateMask(mask): a pixel stays valid where it was valid and the
\* mask is non-zero; values are kept.
updateMask(image, mask) ==
    [image EXCEPT !.mask =
        [b \in DOMAIN image.bands |->
            [p \in Pixels |-> image.mask[b][p] /\ mask[p] # 0]]]

\* image.divide(k): every band value divided by k; the mask is kept.
divide(image, k) ==
    [image EXCEPT !.bands =
        [b \in DOMAIN image.bands |->
            [p \in Pixels |-> Norm(image.bands[b][p], k)]]]

\* Faulty variant: bit 11 (cirrus) is not tested.
CloudMaskCloudOnly(q) == eq(bitwiseAnd(q, cloudBitMask), 0)

\* main.py lines 48-53: the mask value of a pixel whose QA60 value is q.
CloudMask(q) ==
    And(eq(bitwiseAnd(q, cloudBitMask), 0), eq(bitwiseAnd(q, cirrusBitMask), 0))

\* Faulty variant: flagged pixels are zeroed instead of masked.
maskS2cloudsZero(image) ==
    LET qa == image.bands["QA60"]
        z == [image EXCEPT !.bands =
                [b \in DOMAIN image.bands |->
                    [p \in Pixels |->
                        IF CloudMask(qa[p]) # 0 THEN image.bands[b][p] ELSE 0]]]
    IN  divide(z, ReflectanceScale)

maskS2clouds(image) ==
    LET qa == image.bands["QA60"]
        mask == [p \in Pixels |-> CloudMask(qa[p])]
    IN  divide(updateMask(image, mask), ReflectanceScale)

(***************************************************************************)
(* Collection operators.                                                   *)
(***************************************************************************)
\* filterDate(start, end): start inclusive, end exclusive.
filterDate(coll, start, end) ==
    SelectSeq(coll, LAMBDA im : start <= im.date /\ im.date < end)

\* filterBounds(region): the footprint intersects the region.
Intersects(f, g) == f.lo <= g.hi /\ g.lo <= f.hi

filterBounds(coll, region) ==
    SelectSeq(coll, LAMBDA im : Intersects(im.footprint, region))

\* Faulty variant: less-than-or-equal instead of less-than.
FilterLte(coll, limit) == SelectSeq(coll, LAMBDA im : im.cloud <= limit)

\* filter(ee.Filter.lt('CLOUDY_PIXEL_PERCENTAGE', limit))
FilterLt(coll, limit) == SelectSeq(coll, LAMBDA im : im.cloud < limit)

\* map(maskS2clouds): the function applied to every image, in order.
mapMaskS2clouds(coll) == [i \in 1..Len(coll) |-> maskS2clouds(coll[i])]

SeqToSet(s) == {s[i] : i \in 1..Len(s)}

\* select(bands): keep the named bands only.
select(coll, names) ==
    [i \in 1..Len(coll) |->
        [coll[i] EXCEPT !.bands = [b \in SeqToSet(names) |-> coll[i].bands[b]],
                        !.mask  = [b \in SeqToSet(names) |-> coll[i].mask[b]]]]

\* main.py lines 64-68
BuildCollection(cat) ==
    mapMaskS2clouds(
        FilterLt(filterBounds(filterDate(cat, START_DATE, END_DATE), aoi_region),
                 MAX_CLOUD_PERCENTAGE))

(***************************************************************************)
(* The median reducer.                                                     *)
(***************************************************************************)
RECURSIVE Insert(_, _)
Insert(x, s) ==
    IF s = <<>> THEN <<x>>
    ELSE IF RatLeq(x, Head(s)) THEN <<x>> \o s
    ELSE <<Head(s)>> \o Insert(x, Tail(s))

RECURSIVE Sort(_)
Sort(s) == IF s = <<>> THEN <<>> ELSE Insert(Head(s), Sort(Tail(s)))

\* The values of band b at pixel p in the images where that pixel is valid.
RECURSIVE ValidValues(_, _, _)
ValidValues(coll, b, p) ==
    IF coll = <<>> THEN <<>>
    ELSE (IF Head(coll).mask[b][p] THEN <<Head(coll).bands[b][p]>> ELSE <<>>)
         \o ValidValues(Tail(coll), b, p)

\* Faulty variant: for an even count the lower middle value is taken.
MedianOfLower(vals) ==
    LET s == Sort(vals)
        n == Len(s)
    IN  s[(n + 1) \div 2]

MedianOf(vals) ==
    LET s == Sort(vals)
        n == Len(s)
    IN  IF n % 2 = 1 THEN s[(n + 1) \div 2]
        ELSE RatMean(s[n \div 2], s[n \div 2 + 1])

NoData == <<0, 1>>

\* s2_collection.median(): per band and pixel, the median of the valid values;
\* no-data where no image is valid.
median(coll) ==
    [bands |-> [b \in SeqToSet(bands) |->
                  [p \in Pixels |->
                     LET v == ValidValues(coll, b, p)
                     IN  IF v = <<>> THEN NoData ELSE MedianOf(v)]],
     mask  |-> [b \in SeqToSet(bands) |->
                  [p \in Pixels |-> ValidValues(coll, b, p) # <<>>]]]

NoImage == [bands |-> <<>>, mask |-> <<>>]

(***************************************************************************)
(* Inputs: the catalogs the checks enumerate.  Image i of a catalog has id *)
(* i; a catalog is in acquisition-time order.  Raw band values are the     *)
(* integer digital numbers of the catalog.                                 *)
(***************************************************************************)
DN(b, p, v) ==
    LET base == IF p = 1 THEN v ELSE 50000 - v
    IN  CASE b = "B4"  -> base
          [] b = "B3"  -> base + 100
          [] b = "B2"  -> 50000 - base
          [] b = "B8"  -> 3000
          [] b = "B11" -> 7
          [] OTHER     -> 0

MakeImage(i, k) ==
    [id        |-> i,
     date      |-> k.date,
     footprint |-> k.footprint,
     cloud     |-> k.cloud,
     bands     |-> [b \in CatalogBands |->
                      [p \in Pixels |->
                         IF b = "QA60" THEN k.qa[p] ELSE DN(b, p, k.v)]],
     mask      |-> [b \in CatalogBands |-> [p \in Pixels |-> TRUE]]]

Kind(d, f, c, v, q1, q2) ==
    [date |-> d, footprint |-> f, cloud |-> c, v |-> v, qa |-> <<q1, q2>>]

InsideFootprint == [lo |-> 0 - 3000, hi |-> 4000]

\* Every QA60 value on pixel 1, with the cirrus bit flipped on pixel 2.
MaskKinds ==
    {Kind(100, InsideFootprint, 5, 10000, q, (q + 2048) % 4096) : q \in 0..MaxQA}

OutsideFootprint == [lo |-> 6000, hi |-> 9000]

\* Every date and cloud-cover case inside the region, and one image that
\* passes the date and cloud-cover tests outside it.
FilterKinds ==
    {Kind(d, InsideFootprint, c, 10000, 0, 0) :
        d \in {0, 1, 364, 365}, c \in {19, 20, 21}}
    \cup {Kind(1, OutsideFootprint, 19, 10000, 0, 0)}

\* Acquisition days chosen so that time order is not value order.
CompositeDay(v) ==
    CASE v = 10000 -> 102
      [] v = 20000 -> 100
      [] v = 30000 -> 103
      [] OTHER     -> 101

CompositeKinds ==
    {Kind(CompositeDay(v), InsideFootprint, 5, v, q[1], q[2]) :
        v \in {10000, 20000, 30000, 40000}, q \in {<<0, 3072>>, <<1024, 512>>}}

ScriptKinds == {Kind(100, InsideFootprint, 5, 10000, 0, 2048)}

SeqsUpTo(S, n) == UNION {[1..m -> S] : m \in 0..n}

\* A catalog is in acquisition-time order.
TimeOrdered(s) ==
    \A i \in 1..Len(s) : i < Len(s) => s[i].date <= s[i + 1].date

Catalogs(S, n) ==
    {[i \in 1..Len(s) |-> MakeImage(i, s[i])] :
        s \in {t \in SeqsUpTo(S, n) : TimeOrdered(t)}}

PipelineCatalogs ==
    Catalogs(MaskKinds, 1)
        \cup Catalogs(FilterKinds, MaxFilterImages)
        \cup Catalogs(CompositeKinds, MaxImages)

(***************************************************************************)
(* The export task as the client sees it.                                  *)
(***************************************************************************)
ActiveStates == {"READY", "RUNNING", "CANCEL_REQUESTED"}
TerminalStates == {"COMPLETED", "FAILED", "CANCELLED"}
ErrorMessages == {"Internal error.", "User memory limit exceeded."}

\* export_task.active()
active(state) == state \in ActiveStates

\* export_task.status(): error_message is present when the task ended in error.
status(state, err) ==
    IF state \in {"FAILED", "CANCELLED"}
    THEN [state |-> state, error_message |-> err]
    ELSE [state |-> state]

NoStatus == [state |-> "NONE"]

JobTerminal == jobState \in TerminalStates

Inc(n) == IF n < MaxCount THEN n + 1 ELSE n

(***************************************************************************)
(* Printed lines.                                                          *)
(***************************************************************************)
Line(t) == [text |-> t, arg |-> ""]
LineArg(t, a) == [text |-> t, arg |-> a]

\* Faulty variant: the FAILED branch is missing, FAILED falls to the else branch.
ReportLinesNoFailed(st) ==
    IF st["state"] = "COMPLETED"
    THEN <<Line("Export COMPLETED successfully!"),
           LineArg("File should be in:", "gs://" \o BUCKET_NAME \o "/" \o FILENAME \o ".tif")>>
    ELSE <<LineArg("Task finished with state:", st["state"])>>

\* Faulty variant: the else branch is not chained to the if (if / if-else).
ReportLinesUnchained(st) ==
    (IF st["state"] = "COMPLETED"
     THEN <<Line("Export COMPLETED successfully!"),
            LineArg("File should be in:", "gs://" \o BUCKET_NAME \o "/" \o FILENAME \o ".tif")>>
     ELSE <<>>)
    \o (IF st["state"] = "FAILED"
        THEN <<Line("Export FAILED."),
               LineArg("Error message:", st["error_message"])>>
        ELSE <<LineArg("Task finished with state:", st["state"])>>)

\* main.py lines 117-124
ReportLines(st) ==
    IF st["state"] = "COMPLETED"
    THEN <<Line("Export COMPLETED successfully!"),
           LineArg("File should be in:", "gs://" \o BUCKET_NAME \o "/" \o FILENAME \o ".tif")>>
    ELSE IF st["state"] = "FAILED"
    THEN <<Line("Export FAILED."),
           LineArg("Error message:", st["error_message"])>>
    ELSE <<LineArg("Task finished with state:", st["state"])>>

(***************************************************************************)
(* Exceptions.  The only handler of the script is the except clause of     *)
(* lines 10-14, around the first ee.Initialize.                            *)
(***************************************************************************)
Exceptions == {"EEException", "OtherError"}

\* Faulty variant: the retried ee.Initialize is guarded by the same handler.
HandlerRetryLoop(site, e) ==
    IF site \in {"init", "reinit"} /\ e = "EEException" THEN "auth" ELSE "crashed"

\* Faulty variant: an error of the in-loop status call is swallowed and polling goes on.
HandlerPollingGuard(site, e) ==
    IF site = "init" /\ e = "EEException" THEN "auth"
    ELSE IF site = "status" THEN "sleep"
    ELSE "crashed"

\* Where control goes when the call at `site` raises e.
Handler(site, e) ==
    IF site = "init" /\ e = "EEException" THEN "auth" ELSE "crashed"

Raised(site, e) ==
    /\ pc' = Handler(site, e)
    /\ exc' = IF Handler(site, e) = "crashed" THEN e ELSE exc
    /\ crashSite' = IF Handler(site, e) = "crashed" THEN site ELSE crashSite
    /\ raisedLog' = Append(raisedLog, <<site, e>>)

Returned(next) ==
    /\ pc' = next
    /\ UNCHANGED <<exc, crashSite, raisedLog>>

\* Faulty variant: the loop is left after the first check whatever it returned.
WhileNextOnce(a) == "final"

\* main.py line 110: while export_task.active()
WhileNext(a) == IF a THEN "status" ELSE "final"

(***************************************************************************)
(* The script, one action per statement that calls out.                    *)
(***************************************************************************)
LoopUnchanged == UNCHANGED <<catalog, pipelineVars, jobVars, ghostVars>>

\* lines 7-9: the first ee.Initialize
Initialize ==
    /\ pc = "init"
    /\ initCalls' = initCalls + 1
    /\ \E r \in {"ok"} \cup Exceptions :
        /\ firstInit' = r
        /\ IF r = "ok"
           THEN /\ out' = Append(out, Line("Google Earth Engine initialized successfully."))
                /\ Returned("build")
           ELSE /\ out' = out
                /\ Raised("init", r)
    /\ UNCHANGED <<authCalls, startCalls, final_status, activeFalse, loopStatus>>
    /\ LoopUnchanged

\* lines 10-12: the handler prints and runs ee.Authenticate
Authenticate ==
    /\ pc = "auth"
    /\ out' = Append(out, Line("Authentication needed. Running ee.Authenticate()..."))
    /\ authCalls' = authCalls + 1
    /\ \E r \in {"ok"} \cup Exceptions :
        IF r = "ok" THEN Returned("reinit") ELSE Raised("auth", r)
    /\ UNCHANGED <<firstInit, initCalls, startCalls, final_status, activeFalse,
                   loopStatus>>
    /\ LoopUnchanged

\* lines 13-14: ee.Initialize again, inside the handler
Reinitialize ==
    /\ pc = "reinit"
    /\ initCalls' = initCalls + 1
    /\ \E r \in {"ok"} \cup Exceptions :
        IF r = "ok"
        THEN /\ out' = Append(out,
                  Line("Google Earth Engine initialized successfully after authentication."))
             /\ Returned("build")
        ELSE /\ out' = out
             /\ Raised("reinit", r)
    /\ UNCHANGED <<firstInit, authCalls, startCalls, final_status, activeFalse,
                   loopStatus>>
    /\ LoopUnchanged

\* lines 64-68
Build ==
    /\ pc = "build"
    /\ s2_collection' = BuildCollection(catalog)
    /\ pc' = "select"
    /\ UNCHANGED <<catalog, median_image, out, exc, crashSite, raisedLog,
                   firstInit,
                   initCalls, authCalls, startCalls, final_status, activeFalse,
                   loopStatus, jobVars, ghostVars>>

\* lines 72-73
SelectBands ==
    /\ pc = "select"
    /\ s2_collection' = select(s2_collection, bands)
    /\ pc' = "median"
    /\ UNCHANGED <<catalog, median_image, out, exc, crashSite, raisedLog,
                   firstInit,
                   initCalls, authCalls, startCalls, final_status, activeFalse,
                   loopStatus, jobVars, ghostVars>>

\* lines 81-83
MedianComposite ==
    /\ pc = "median"
    /\ median_image' = median(s2_collection)
    /\ out' = Append(out, Line("Image collection filtered and median composite created."))
    /\ pc' = "export"
    /\ UNCHANGED <<catalog, s2_collection, exc, crashSite, raisedLog,
                   firstInit, initCalls,
                   authCalls, startCalls, final_status, activeFalse, loopStatus,
                   jobVars, ghostVars>>

\* lines 95-104: the task object is created, not yet submitted
ExportCreate ==
    /\ pc = "export"
    /\ \/ /\ jobState' = "UNSUBMITTED"
          /\ Returned("start")
       \/ /\ jobState' = jobState
          /\ \E e \in Exceptions : Raised("export", e)
    /\ UNCHANGED <<catalog, pipelineVars, out, firstInit, initCalls, authCalls,
                   startCalls, final_status, activeFalse, loopStatus, jobError,
                   ghostVars>>

\* lines 107-109
Start ==
    /\ pc = "start"
    /\ startCalls' = startCalls + 1
    /\ \/ /\ jobState' = "READY"
          /\ out' = Append(out, Line("Monitoring task:"))
          /\ Returned("while")
       \/ /\ jobState' = jobState
          /\ out' = out
          /\ \E e \in Exceptions : Raised("start", e)
    /\ UNCHANGED <<catalog, pipelineVars, firstInit, initCalls, authCalls,
                   final_status, activeFalse, loopStatus, jobError, ghostVars>>

\* line 110
WhileActive ==
    /\ pc = "while"
    /\ \/ /\ Returned(WhileNext(active(jobState)))
          /\ activeFalse' = (activeFalse \/ ~active(jobState))
       \/ /\ activeFalse' = activeFalse
          /\ \E e \in Exceptions : Raised("while", e)
    /\ UNCHANGED <<out, firstInit, initCalls, authCalls, startCalls, final_status,
                   loopStatus>>
    /\ LoopUnchanged

\* line 112
LoopStatus ==
    /\ pc = "status"
    /\ \/ /\ loopStatus' = status(jobState, jobError)["state"]
          /\ printsAfterTerm' = IF JobTerminal THEN Inc(printsAfterTerm)
                                ELSE printsAfterTerm
          /\ Returned("sleep")
       \/ /\ UNCHANGED <<loopStatus, printsAfterTerm>>
          /\ \E e \in Exceptions : Raised("status", e)
    /\ UNCHANGED <<catalog, pipelineVars, out, firstInit, initCalls, authCalls,
                   startCalls, final_status, activeFalse, jobVars, sleepsAfterTerm>>

\* Faulty variant: after the sleep the status is printed again without a new check.
SleepNoRecheck ==
    /\ pc = "sleep"
    /\ pc' = "status"
    /\ sleepsAfterTerm' = IF JobTerminal THEN Inc(sleepsAfterTerm) ELSE sleepsAfterTerm
    /\ UNCHANGED <<catalog, pipelineVars, out, exc, crashSite, raisedLog,
                   firstInit, initCalls,
                   authCalls, startCalls, final_status, activeFalse, loopStatus,
                   jobVars, printsAfterTerm>>

\* line 113
Sleep ==
    /\ pc = "sleep"
    /\ pc' = "while"
    /\ sleepsAfterTerm' = IF JobTerminal THEN Inc(sleepsAfterTerm) ELSE sleepsAfterTerm
    /\ UNCHANGED <<catalog, pipelineVars, out, exc, crashSite, raisedLog,
                   firstInit, initCalls,
                   authCalls, startCalls, final_status, activeFalse, loopStatus,
                   jobVars, printsAfterTerm>>

\* line 116
FinalStatus ==
    /\ pc = "final"
    /\ \/ /\ final_status' = status(jobState, jobError)
          /\ Returned("report")
       \/ /\ final_status' = final_status
          /\ \E e \in Exceptions : Raised("final", e)
    /\ UNCHANGED <<out, firstInit, initCalls, authCalls, startCalls, activeFalse,
                   loopStatus>>
    /\ LoopUnchanged

\* lines 117-124
Report ==
    /\ pc = "report"
    /\ out' = out \o ReportLines(final_status)
    /\ pc' = "done"
    /\ UNCHANGED <<exc, crashSite, raisedLog, firstInit, initCalls, authCalls, startCalls,
                   final_status, activeFalse, loopStatus>>
    /\ LoopUnchanged

PipelineNext == Build \/ SelectBands \/ MedianComposite

ScriptNext ==
    \/ Initialize \/ Authenticate \/ Reinitialize
    \/ PipelineNext
    \/ ExportCreate \/ Start \/ WhileActive \/ LoopStatus \/ Sleep
    \/ FinalStatus \/ Report

(***************************************************************************)
(* The remote export job.  Terminal states are absorbing.                  *)
(***************************************************************************)
JobUnchanged == UNCHANGED <<catalog, scriptVars, ghostVars>>

JobRun ==
    /\ jobState = "READY"
    /\ jobState' = "RUNNING"
    /\ UNCHANGED jobError
    /\ JobUnchanged

JobComplete ==
    /\ jobState = "RUNNING"
    /\ jobState' = "COMPLETED"
    /\ UNCHANGED jobError
    /\ JobUnchanged

JobFail ==
    /\ jobState \in {"READY", "RUNNING"}
    /\ jobState' = "FAILED"
    /\ jobError' \in ErrorMessages
    /\ JobUnchanged

JobCancelRequest ==
    /\ jobState \in {"READY", "RUNNING"}
    /\ jobState' = "CANCEL_REQUESTED"
    /\ UNCHANGED jobError
    /\ JobUnchanged

JobCancelled ==
    /\ jobState = "CANCEL_REQUESTED"
    /\ jobState' = "CANCELLED"
    /\ jobError' = "Cancelled."
    /\ JobUnchanged

JobNext == JobRun \/ JobComplete \/ JobFail \/ JobCancelRequest \/ JobCancelled

(***************************************************************************)
(* Specifications.                                                         *)
(***************************************************************************)
InitCommon ==
    /\ s2_collection = <<>>
    /\ median_image = NoImage
    /\ exc = "none"
    /\ crashSite = "none"
    /\ raisedLog = <<>>
    /\ authCalls = 0
    /\ startCalls = 0
    /\ jobState = "NONE"
    /\ jobError = ""
    /\ final_status = NoStatus
    /\ activeFalse = FALSE
    /\ loopStatus = "NONE"
    /\ printsAfterTerm = 0
    /\ sleepsAfterTerm = 0

\* The state when the script starts.
Init ==
    /\ catalog \in Catalogs(ScriptKinds, 1)
    /\ pc = "init"
    /\ out = <<>>
    /\ firstInit = "none"
    /\ initCalls = 0
    /\ InitCommon

\* The state after a first ee.Initialize that succeeded, for any catalog.
PipelineInit ==
    /\ catalog \in PipelineCatalogs
    /\ pc = "build"
    /\ out = <<Line("Google Earth Engine initialized successfully.")>>
    /\ firstInit = "ok"
    /\ initCalls = 1
    /\ InitCommon

Next == ScriptNext \/ JobNext

Spec == Init /\ [][Next]_vars

\* The script is a running process: it takes its next step.
FairSpec == Init /\ [][Next]_vars /\ WF_vars(ScriptNext)

PipelineSpec == PipelineInit /\ [][PipelineNext]_vars

(***************************************************************************)
(* Properties.                                                             *)
(***************************************************************************)
Bit(q, k) == (q \div 2^k) % 2

\* The collection of lines 64-68 has been built.
Built ==
    /\ pc \notin {"init", "auth", "reinit", "build"}
    /\ ~(pc = "crashed" /\ crashSite \in {"init", "auth", "reinit"})

\* The composite of line 81 has been built.
Composed ==
    /\ Built
    /\ pc \notin {"select", "median"}

RawQA(im, p) == catalog[im.id].bands["QA60"][p]

\* C1: for every QA60 value q, the mask built by maskS2clouds keeps a pixel
\* (in every band) iff bit 10 and bit 11 of q are both 0, whatever the other
\* bits are; 0 and 512 are kept, 1024, 2048 and 3072 are not.
C1_MaskIffCloudAndCirrusClear ==
    \A i \in 1..Len(s2_collection) :
        \A b \in DOMAIN s2_collection[i].mask : \A p \in Pixels :
            LET q == RawQA(s2_collection[i], p)
                kept == s2_collection[i].mask[b][p]
            IN  /\ kept <=> (Bit(q, 10) = 0 /\ Bit(q, 11) = 0)
                /\ q \in {0, 512} => kept
                /\ q \in {1024, 2048, 3072} => ~kept

C1_Witness ==
    /\ Len(s2_collection) = 1
    /\ RawQA(s2_collection[1], 1) = 4096 + 256
    /\ s2_collection[1].mask["B4"][1]
    /\ RawQA(s2_collection[1], 2) = 2048 + 256
    /\ ~s2_collection[1].mask["B4"][2]

Max(a, b) == IF a >= b THEN a ELSE b
Min(a, b) == IF a <= b THEN a ELSE b

\* An image of the catalog meets the three criteria of the filter: acquired
\* on a day from START_DATE up to but not including END_DATE, footprint
\* sharing a point with the region, cloud cover strictly below the threshold.
MeetsCriteria(im) ==
    /\ im.date >= START_DATE
    /\ im.date + 1 <= END_DATE
    /\ Max(im.footprint.lo, aoi_region.lo) <= Min(im.footprint.hi, aoi_region.hi)
    /\ im.cloud + 1 <= MAX_CLOUD_PERCENTAGE

RankRat(idx, val, r) ==
    CHOOSE x \in {val[i] : i \in idx} :
        /\ Cardinality({i \in idx : RatLess(val[i], x)}) < r
        /\ Cardinality({i \in idx : RatLeq(val[i], x)}) >= r

\* m is the mean of a and b.
IsMeanOf(m, a, b) ==
    2 * m[1] * a[2] * b[2] = m[2] * (a[1] * b[2] + b[1] * a[2])

\* m is the median of the values val[i], i in idx (idx not empty).
IsMedianOf(m, idx, val) ==
    LET n == Cardinality(idx)
    IN  IF n % 2 = 1
        THEN m = RankRat(idx, val, (n + 1) \div 2)
        ELSE IsMeanOf(m, RankRat(idx, val, n \div 2), RankRat(idx, val, n \div 2 + 1))

\* C6: per pixel and band, the composite is the median of the values of the
\* images of the collection in which the pixel is valid, the mean of the two
\* middle values for an even count ([1,2,3,4] gives 2.5); it is no-data when
\* the pixel is valid in no image, also for an empty collection; one image
\* gives that image's values.
C6_MedianOfValidValues ==
    Composed =>
        /\ DOMAIN median_image.bands = SeqToSet(bands)
        /\ \A b \in SeqToSet(bands) : \A p \in Pixels :
            LET idx == {i \in 1..Len(s2_collection) : s2_collection[i].mask[b][p]}
                val == [i \in 1..Len(s2_collection) |-> s2_collection[i].bands[b][p]]
                m == median_image.bands[b][p]
            IN  /\ median_image.mask[b][p] <=> idx # {}
                /\ idx # {} => IsMedianOf(m, idx, val)
                /\ (Cardinality(idx) = 4
                      /\ {val[i] : i \in idx} = {<<1, 1>>, <<2, 1>>, <<3, 1>>, <<4, 1>>})
                   => m = <<5, 2>>
                /\ Len(s2_collection) = 1 /\ idx # {} => m = val[1]
        /\ Len(s2_collection) = 1 => median_image.mask = s2_collection[1].mask

C6_Witness ==
    /\ Composed
    /\ Len(s2_collection) = 4
    /\ {s2_collection[i].bands["B4"][1] : i \in 1..4}
         = {<<1, 1>>, <<2, 1>>, <<3, 1>>, <<4, 1>>}
    /\ \A i \in 1..4 : s2_collection[i].mask["B4"][1]
    /\ median_image.bands["B4"][1] = <<5, 2>>
    /\ ~median_image.mask["B4"][2]

Flagged(q) == Bit(q, 10) = 1 \/ Bit(q, 11) = 1

\* The r-th smallest of the integers raw[j], j in idx.
RankInt(idx, raw, r) ==
    CHOOSE x \in {raw[j] : j \in idx} :
        /\ Cardinality({j \in idx : raw[j] < x}) < r
        /\ Cardinality({j \in idx : raw[j] <= x}) >= r

\* Twice the median of the integers raw[j], j in idx (idx not empty).
TwiceMedianInt(idx, raw) ==
    LET n == Cardinality(idx)
    IN  IF n % 2 = 1 THEN 2 * RankInt(idx, raw, (n + 1) \div 2)
        ELSE RankInt(idx, raw, n \div 2) + RankInt(idx, raw, n \div 2 + 1)

\* C8: through mask, rescale and median a pixel flagged cloud or cirrus is
\* left out of the reduction, not counted as zero, and the division by 10000
\* changes values and not validity: the composite is, per band and pixel, the
\* median of raw/10000 over the filtered images whose pixel is unflagged;
\* raw 10000, 20000 and a flagged third give 1.5.
C8_FlaggedPixelsSkipped ==
    /\ Built =>
          \A i \in 1..Len(s2_collection) :
              \A b \in DOMAIN s2_collection[i].bands : \A p \in Pixels :
                  LET c == catalog[s2_collection[i].id]
                      x == s2_collection[i].bands[b][p]
                  IN  /\ s2_collection[i].mask[b][p] <=> ~Flagged(c.bands["QA60"][p])
                      /\ s2_collection[i].mask[b][p]
                            => x[1] * ReflectanceScale = c.bands[b][p] * x[2]
    /\ Composed =>
          \A b \in SeqToSet(bands) : \A p \in Pixels :
              LET idx == {j \in 1..Len(catalog) :
                            /\ MeetsCriteria(catalog[j])
                            /\ ~Flagged(catalog[j].bands["QA60"][p])}
                  raw == [j \in 1..Len(catalog) |-> catalog[j].bands[b][p]]
                  m == median_image.bands[b][p]
              IN  /\ median_image.mask[b][p] <=> idx # {}
                  /\ idx # {} =>
                        2 * ReflectanceScale * m[1] = TwiceMedianInt(idx, raw) * m[2]
                  /\ (Len(catalog) = 3
                        /\ {catalog[j].bands[b][p] : j \in idx} = {10000, 20000}
                        /\ Cardinality(idx) = 2)
                     => m = <<3, 2>>

C8_Witness ==
    /\ Composed
    /\ Len(catalog) = 3
    /\ catalog[1].bands["B4"][1] = 20000 /\ ~Flagged(catalog[1].bands["QA60"][1])
    /\ catalog[2].bands["B4"][1] = 40000 /\ Flagged(catalog[2].bands["QA60"][1])
    /\ catalog[3].bands["B4"][1] = 10000 /\ ~Flagged(catalog[3].bands["QA60"][1])
    /\ median_image.mask["B4"][1]
    /\ median_image.bands["B4"][1] = <<3, 2>>

(***************************************************************************)
(* Properties of the script's control flow.                                *)
(***************************************************************************)
Crashed == pc = "crashed"

\* No statement after the initialization block has run.
NothingAfterInit ==
    /\ s2_collection = <<>>
    /\ median_image = NoImage
    /\ startCalls = 0
    /\ jobState = "NONE"
    /\ final_status = NoStatus
    /\ activeFalse = FALSE
    /\ \A k \in 1..Len(out) :
          out[k].text = "Authentication needed. Running ee.Authenticate()..."

\* C2: ee.Authenticate runs only after a first ee.Initialize that raised the
\* caught exception, and then exactly once, followed by exactly one more
\* ee.Initialize; a failure of either ends the process before any later
\* statement; after a first ee.Initialize that succeeded it never runs.
C2_OneShotRetry ==
    /\ authCalls <= 1
    /\ initCalls <= 2
    /\ authCalls = 1 => firstInit = "EEException"
    /\ initCalls = 2 => authCalls = 1
    /\ firstInit = "ok" => authCalls = 0 /\ initCalls = 1
    /\ firstInit = "EEException" /\ pc # "auth" => authCalls = 1
    /\ (firstInit = "EEException" /\ pc \notin {"auth", "reinit"}
          /\ ~(Crashed /\ crashSite = "auth")) => initCalls = 2
    /\ Crashed /\ crashSite \in {"init", "auth", "reinit"} => NothingAfterInit
    /\ Built /\ firstInit = "EEException" =>
          /\ Len(raisedLog) >= 1
          /\ raisedLog[1] = <<"init", "EEException">>
          /\ \A k \in 1..Len(raisedLog) : raisedLog[k][1] \notin {"auth", "reinit"}

C2_Witness ==
    /\ Crashed
    /\ crashSite = "reinit"
    /\ exc = "EEException"
    /\ firstInit = "EEException"
    /\ authCalls = 1
    /\ initCalls = 2

OutcomeTexts ==
    {"Export COMPLETED successfully!", "Export FAILED.", "Task finished with state:"}

OutcomeReports == Cardinality({k \in 1..Len(out) : out[k].text \in OutcomeTexts})

\* The lines printed after "Monitoring task:".
AfterMonitoring ==
    LET k == CHOOSE i \in 1..Len(out) : out[i].text = "Monitoring task:"
    IN  SubSeq(out, k + 1, Len(out))

\* The script has left the polling loop.
PastLoop ==
    \/ pc \in {"final", "report", "done"}
    \/ Crashed /\ crashSite = "final"

\* C3 as amended: the script is past the polling loop only when the job is
\* not active, it ends normally only when the job has ended, and once the job
\* has ended the script goes on to end, with a report unless a polling call
\* raised.
C3_PollsUntilJobEnds ==
    /\ [](PastLoop => ~active(jobState))
    /\ [](pc = "done" => JobTerminal /\ OutcomeReports = 1)
    /\ (JobTerminal ~> (pc = "done" \/ (Crashed /\ crashSite \in {"while", "status", "final"})))

\* C3 as stated: once the job has ended the script goes on to report an
\* outcome, in every run.
C3_AlwaysReports ==
    /\ [](PastLoop => ~active(jobState))
    /\ (JobTerminal ~> (pc = "done" /\ OutcomeReports = 1))

C3_Witness ==
    /\ pc = "done"
    /\ loopStatus = "RUNNING"
    /\ sleepsAfterTerm = 1
    /\ jobState = "COMPLETED"
    /\ OutcomeReports = 1

\* C4: after the final status read nothing raises; a script that ended with
\* final state FAILED printed the failure and the job's error message, with
\* COMPLETED the success line and the destination, with any other state that
\* state.
C4_FinalReport ==
    /\ final_status # NoStatus => pc \in {"report", "done"} /\ exc = "none"
    /\ pc = "done" =>
          LET st == final_status["state"]
          IN  /\ st = "COMPLETED" =>
                    AfterMonitoring =
                        <<Line("Export COMPLETED successfully!"),
                          LineArg("File should be in:",
                                  "gs://valkyrion-satellite-data/bucharest-sentinel2.tif")>>
              /\ st = "FAILED" =>
                    AfterMonitoring =
                        <<Line("Export FAILED."), LineArg("Error message:", jobError)>>
              /\ st \notin {"COMPLETED", "FAILED"} =>
                    AfterMonitoring = <<LineArg("Task finished with state:", st)>>

C4_Witness ==
    /\ pc = "done"
    /\ final_status["state"] = "FAILED"
    /\ jobError = "User memory limit exceeded."
    /\ exc = "none"

LaterSites == {"export", "start", "while", "status", "final"}

\* C5: every exception other than the caught one of the first ee.Initialize
\* ends the process where it was raised: it is the last one raised, the
\* process is at its end with that exception, nothing of the script changes
\* afterwards (no retry), and no outcome report is printed.
C5_UncaughtFailuresEndTheProcess ==
    /\ [](\A k \in 1..Len(raisedLog) :
             raisedLog[k] # <<"init", "EEException">> =>
                 /\ k = Len(raisedLog)
                 /\ Crashed
                 /\ crashSite = raisedLog[k][1]
                 /\ exc = raisedLog[k][2])
    /\ [](Crashed /\ crashSite \in LaterSites =>
             /\ OutcomeReports = 0
             /\ final_status = NoStatus
             /\ startCalls <= 1)
    /\ [][Crashed => UNCHANGED scriptVars]_vars

C5_Witness ==
    /\ Crashed
    /\ crashSite = "status"
    /\ jobState = "COMPLETED"
    /\ raisedLog = <<<<"status", "OtherError">>>>
    /\ OutcomeReports = 0

\* C9: a script that reached its end printed exactly one outcome report; a
\* report is printed only after the one start() call and an active() call that
\* returned False, from a status read after that call; the state reported is
\* the state read and is not an active state.
C9_ExactlyOneReport ==
    /\ pc = "done" =>
          LET st == final_status["state"]
              first == AfterMonitoring[1]
          IN  /\ OutcomeReports = 1
              /\ first.text \in OutcomeTexts
              /\ first.text = "Export COMPLETED successfully!" <=> st = "COMPLETED"
              /\ first.text = "Export FAILED." <=> st = "FAILED"
              /\ first.text = "Task finished with state:" =>
                    first.arg = st /\ st \notin ActiveStates
              /\ st = jobState
    /\ OutcomeReports > 0 => pc = "done"
    /\ final_status # NoStatus =>
          /\ activeFalse
          /\ startCalls = 1
          /\ final_status["state"] \in TerminalStates
    /\ activeFalse => startCalls = 1 /\ ~active(jobState)

C9_Witness ==
    /\ pc = "done"
    /\ final_status["state"] = "CANCELLED"
    /\ OutcomeReports = 1
    /\ activeFalse
    /\ startCalls = 1

\* C10: once the job has ended the script prints at most one more in-loop
\* status line and sleeps at most once more, then checks active() and leaves
\* the loop.
C10_BoundedLagAfterJobEnds ==
    /\ printsAfterTerm <= 1
    /\ sleepsAfterTerm <= 1
    /\ sleepsAfterTerm = 1 => pc \notin {"status", "sleep"}
    /\ printsAfterTerm = 1 => pc # "status"

C10_Witness ==
    /\ printsAfterTerm = 1
    /\ sleepsAfterTerm = 1
    /\ pc = "report"
    /\ loopStatus = "FAILED"

====
